---- MODULE Spec2Model ----
(***************************************************************************)
(* Model of the storefront presentation layer:                             *)
(*   - product page      apps/core/app/(default)/product/[slug]/page.tsx   *)
(*   - content page      generateMetadata / WebPage        (part_000)      *)
(*   - option selection  URL query-string contract          (part_000 test)*)
(* Strings that the code converts with Number() are sequences of           *)
(* one-character strings, so that the conversion is computed, not assumed. *)
(***************************************************************************)
EXTENDS Integers, Sequences, FiniteSets, TLC

(* ------------------------------ bounds --------------------------------- *)
\* query parameters per request explored by SpecOptions
MaxParams == 1
\* length of a query key / value string explored by SpecOptions
MaxStrLen == 2
\* length of each element of a repeated (array-valued) query parameter
MaxArrayElemLen == 1
\* catalog images per product
MaxImages == 2
\* distinct image URLs
NumUrls == 2
\* option selections made in one browsing session
MaxSelections == 3
\* query parameters already in the URL when the session starts
MaxInitialParams == 2

(* --------------------------- JavaScript values ------------------------- *)
Null == [isNull |-> TRUE]

Digits == {"0", "1", "2", "3", "4", "5", "6", "7", "8", "9"}

\* the characters query strings are built from: digits, the decimal point
\* and a letter that belongs to no numeric literal
Chars == {"1", "2", ".", "a"}

SlugKey == <<"s", "l", "u", "g">>

StringsUpTo(n) == UNION {[1..k -> Chars] : k \in 0..n}

DigitVal(c) ==
  CASE c = "0" -> 0 [] c = "1" -> 1 [] c = "2" -> 2 [] c = "3" -> 3
    [] c = "4" -> 4 [] c = "5" -> 5 [] c = "6" -> 6 [] c = "7" -> 7
    [] c = "8" -> 8 [] c = "9" -> 9

\* a JavaScript number: NaN, or the decimal fraction num / den (den a power
\* of ten, no common factor ten)
NaN == [nan |-> TRUE, num |-> 0, den |-> 1]

RECURSIVE Normalize(_, _)
Normalize(num, den) ==
  IF den > 1 /\ num % 10 = 0
    THEN Normalize(num \div 10, den \div 10)
    ELSE [nan |-> FALSE, num |-> num, den |-> den]

IsNaN(x) == x.nan

AllDigits(s) == \A i \in 1..Len(s) : s[i] \in Digits

RECURSIVE DigitsValue(_)
DigitsValue(s) ==
  IF Len(s) = 0 THEN 0
  ELSE 10 * DigitsValue(SubSeq(s, 1, Len(s) - 1)) + DigitVal(s[Len(s)])

RECURSIVE Pow10(_)
Pow10(n) == IF n = 0 THEN 1 ELSE 10 * Pow10(n - 1)

\* Number(string): the empty string is 0; DecimalDigits, DecimalDigits "."
\* DecimalDigits(opt) and "." DecimalDigits are decimal literals; anything
\* else over Chars is NaN.
StringToNumber(s) ==
  IF Len(s) = 0 THEN Normalize(0, 1)
  ELSE IF AllDigits(s) THEN Normalize(DigitsValue(s), 1)
  ELSE LET dots == {i \in 1..Len(s) : s[i] = "."}
       IN IF Cardinality(dots) # 1 THEN NaN
          ELSE LET d == CHOOSE i \in dots : TRUE
                   ip == SubSeq(s, 1, d - 1)
                   fp == SubSeq(s, d + 1, Len(s))
               IN IF Len(s) = 1 \/ ~AllDigits(ip) \/ ~AllDigits(fp) THEN NaN
                  ELSE Normalize(DigitsValue(ip) * Pow10(Len(fp)) + DigitsValue(fp),
                                 Pow10(Len(fp)))

\* Array.prototype.toString: the elements joined with ","
RECURSIVE JoinComma(_)
JoinComma(items) ==
  IF Len(items) = 0 THEN <<>>
  ELSE IF Len(items) = 1 THEN items[1]
  ELSE items[1] \o <<",">> \o JoinComma(Tail(items))

\* a query value: string | string[] | undefined
StrValue(s) == [kind |-> "string", str |-> s, items |-> <<>>]
ArrValue(a) == [kind |-> "array", str |-> <<>>, items |-> a]
Undefined == [kind |-> "undefined", str |-> <<>>, items |-> <<>>]

\* Number(v) for a query value v
ToNumber(v) ==
  CASE v.kind = "string" -> StringToNumber(v.str)
    [] v.kind = "array" -> StringToNumber(JoinComma(v.items))
    [] v.kind = "undefined" -> NaN

(* ------------------------------- state --------------------------------- *)
VARIABLES
  route,          \* which page the request is for: "product" | "webpage"
  handler,        \* which exported function runs: "generateMetadata" | "render"
  params,         \* params.slug / params.page, a string
  searchParams,   \* the request's query parameters: key string -> value
  pc,             \* position of the running handler
  path,           \* `/${params.page}`
  productId,      \* Number(params.slug)
  optionValueIds, \* the selection set passed to getProduct
  product,        \* what getProduct resolved to (Null when absent)
  fetchedImages,  \* product.images as getProduct returned it
  images,         \* the local `images` of Product: a reference into heap
  heap,           \* image arrays by reference
  webpage,        \* what getWebPage resolved to (Null when absent)
  reCaptcha,      \* getReCaptchaSettings: calls issued and outcome
  result,         \* what the handler ended in
  prices,         \* product.prices handed to ProductDetails
  details,        \* the price block ProductDetails rendered
  query,          \* the browser URL's query string: sequence of <<key, value>>
  initialQuery,   \* the query string the browsing session started from
  selected,       \* option id -> value id most recently selected
  nSelections     \* selections made so far

reqVars == <<route, handler, params, searchParams, pc, path, productId, optionValueIds,
             product, fetchedImages, images, heap, webpage, reCaptcha, result>>
priceVars == <<prices, details>>
urlVars == <<query, initialQuery, selected, nSelections>>
vars == <<reqVars, priceVars, urlVars>>

(* ------------------- product page: option selection set ---------------- *)
Keys == StringsUpTo(MaxStrLen) \cup {SlugKey}

\* a repeated key (?k=a&k=b) arrives as an array of at least two strings
Values ==
  {StrValue(s) : s \in StringsUpTo(MaxStrLen)} \cup
  {ArrValue(<<a, b>>) : a \in StringsUpTo(MaxArrayElemLen),
                        b \in StringsUpTo(MaxArrayElemLen)}

RECURSIVE KeySetsUpTo(_)
KeySetsUpTo(n) ==
  IF n = 0 THEN {{}}
  ELSE LET prev == KeySetsUpTo(n - 1)
       IN prev \cup {K \cup {k} : K \in prev, k \in Keys}

\* the query strings with at most n parameters
SearchParamsUpTo(n) == UNION {[K -> Values] : K \in KeySetsUpTo(n)}

\* const { slug, ...options } = searchParams; Object.keys(options).map(...).filter(...)
\* The array is kept as the set of its elements.
OptionPair(sp, option) ==
  [optionEntityId |-> StringToNumber(option), valueEntityId |-> ToNumber(sp[option])]

ValidPairs(pairs) ==
  {o \in pairs : ~IsNaN(o.optionEntityId) /\ ~IsNaN(o.valueEntityId)}

OptionValueIds(sp) ==
  LET options == DOMAIN sp \ {SlugKey}
  IN ValidPairs({OptionPair(sp, option) : option \in options})

(* --------------------- product page: image reconciliation -------------- *)
Urls == 1..NumUrls
AltTexts == {"alt"}

Image == [url : Urls, altText : AltTexts, isDefault : BOOLEAN]
ImageLists == UNION {[1..n -> Image] : n \in 0..MaxImages}
DefaultImages == {Null} \cup [url : Urls, altText : AltTexts]

\* product.images.find((image) => image.isDefault): index of the first flagged
\* image, 0 for undefined
TopLevelDefaultImg(imgs) ==
  IF \E i \in 1..Len(imgs) : imgs[i].isDefault
    THEN CHOOSE i \in 1..Len(imgs) :
           imgs[i].isDefault /\ \A j \in 1..(i - 1) : ~imgs[j].isDefault
    ELSE 0

\* a test that skips the URL comparison
NeedsReconcile_AnyDefault(imgs, defaultImage) == defaultImage # Null

\* product.defaultImage && topLevelDefaultImg?.url !== product.defaultImage.url
NeedsReconcile(imgs, defaultImage) ==
  /\ defaultImage # Null
  /\ LET top == TopLevelDefaultImg(imgs)
     IN top = 0 \/ imgs[top].url # defaultImage.url

\* a reconciliation that appends without clearing the catalog's flags
ClearAndAppend_NoClear(imgs, defaultImage) ==
  Append(imgs, [url |-> defaultImage.url, altText |-> defaultImage.altText,
                isDefault |-> TRUE])

\* a reconciliation that appends the default image without flagging it
ClearAndAppend_Unflagged(imgs, defaultImage) ==
  Append([i \in 1..Len(imgs) |-> [imgs[i] EXCEPT !.isDefault = FALSE]],
         [url |-> defaultImage.url, altText |-> defaultImage.altText,
          isDefault |-> FALSE])

\* images.forEach((image) => { image.isDefault = false }); images.push({...})
ClearAndAppend(imgs, defaultImage) ==
  Append([i \in 1..Len(imgs) |-> [imgs[i] EXCEPT !.isDefault = FALSE]],
         [url |-> defaultImage.url, altText |-> defaultImage.altText,
          isDefault |-> TRUE])

\* const images = product.images: the same array, not a new one
ImagesBinding(p) == p.images

\* lines 217-231 on the heap: the test reads product.images, the writes go
\* through the local `images`
Reconcile(h, p, ref) ==
  IF NeedsReconcile(h[p.images], p.defaultImage)
    THEN [h EXCEPT ![ref] = ClearAndAppend(h[ref], p.defaultImage)]
    ELSE h

(* ------------------------- product page: metadata ---------------------- *)
DescriptionLimit == 150

Min(a, b) == IF a < b THEN a ELSE b

\* String.prototype.slice(0, n)
Slice(s, n) == SubSeq(s, 1, Min(n, Len(s)))

\* String.prototype.split(',')
RECURSIVE Split(_)
Split(s) ==
  IF \E i \in 1..Len(s) : s[i] = ","
    THEN LET c == CHOOSE i \in 1..Len(s) :
                    s[i] = "," /\ \A j \in 1..(i - 1) : s[j] # ","
         IN <<SubSeq(s, 1, c - 1)>> \o Split(SubSeq(s, c + 1, Len(s)))
    ELSE <<s>>

Seo == [pageTitle : {<<>>, <<"T">>},
        metaDescription : {<<>>, <<"D">>},
        metaKeywords : {<<>>, <<"k">>, <<"k", ",", "j">>}]

DefaultSeo == [pageTitle |-> <<>>, metaDescription |-> <<>>, metaKeywords |-> <<>>]

Refs == {"r1", "r2"}

\* the product as the render reads it: the image list and the default image vary
ProductsForRender ==
  [name : {<<"N">>}, plainTextDescription : {<<"P", "l", "a", "i", "n">>},
   seo : {DefaultSeo}, defaultImage : DefaultImages, images : {"r1"}]

\* the product as generateMetadata reads it: seo and the default image vary
ProductsForMetadata ==
  [name : {<<"N">>}, plainTextDescription : {<<"P", "l", "a", "i", "n">>},
   seo : Seo, defaultImage : DefaultImages, images : {"r1"}]

EmptyMetadata == <<>>

\* the Metadata object generateMetadata builds for a product
ProductMetadata(p) ==
  [title |-> IF p.seo.pageTitle # <<>> THEN p.seo.pageTitle ELSE p.name,
   description |->
     IF p.seo.metaDescription # <<>> THEN p.seo.metaDescription
     ELSE Slice(p.plainTextDescription, DescriptionLimit) \o <<".", ".", ".">>,
   keywords |-> IF p.seo.metaKeywords # <<>> THEN [list |-> Split(p.seo.metaKeywords)]
                ELSE Null,
   openGraph |-> IF p.defaultImage # Null
                   THEN [images |-> <<[url |-> p.defaultImage.url,
                                       alt |-> p.defaultImage.altText]>>]
                   ELSE Null]

(* ------------------------------ content page --------------------------- *)
PageTypes == {"ContactPage", "NormalPage", "RawHtmlPage"}

WebPages ==
  [typename : PageTypes, name : {"About"}, htmlBody : {"<p>body</p>"},
   entityId : {7}, seo : {DefaultSeo, [DefaultSeo EXCEPT !.pageTitle = <<"T">>]},
   contactFields : {<<>>, <<"fullname">>}]

ReCaptchaSettings == {"enabled", "disabled"}

ReCaptchaIdle == [calls |-> 0, status |-> "idle", settings |-> "none"]

\* the Metadata object generateMetadata builds for a content page
WebPageMetadata(w) ==
  [title |-> w.seo.pageTitle, description |-> w.seo.metaDescription,
   keywords |-> w.seo.metaKeywords]

PageContent(w) == [component |-> "PageContent", content |-> w.htmlBody, title |-> w.name]

ContactUs(w, settings) ==
  [component |-> "ContactUs", fields |-> w.contactFields,
   pageEntityId |-> w.entityId, reCaptchaSettings |-> settings]

\* case 'ContactPage'
ContactPageTree(w, settings) == <<PageContent(w), ContactUs(w, settings)>>

\* case 'NormalPage': default:
NormalPageTree(w) == <<PageContent(w)>>

\* a switch whose ContactPage case also takes NormalPage
IsContactPage_OrNormal(w) == w.typename \in {"ContactPage", "NormalPage"}

IsContactPage(w) == w.typename = "ContactPage"

(* ------------------------------- results ------------------------------- *)
NoResult == [kind |-> "none", value |-> <<>>]
NotFound == [kind |-> "notFound", value |-> <<>>]
MetadataResult(m) == [kind |-> "metadata", value |-> m]
Rendered(tree) == [kind |-> "rendered", value |-> tree]
Failure(e) == [kind |-> "error", value |-> e]

\* what Product returns: the element tree with the props of each component
ProductTree(pid, imgs, p, ovi) ==
  [breadCrumbs |-> pid, gallery |-> imgs, details |-> p,
   descriptionAndReviews |-> p,
   relatedProducts |-> [optionValueIds |-> ovi, productId |-> pid]]

\* generateMetadata of the product page, lines 171-192
ProductMetadataResult(p) ==
  IF p = Null THEN MetadataResult(EmptyMetadata)
  ELSE MetadataResult(ProductMetadata(p))

\* a content-page generateMetadata that answers an absent page with {} as the
\* product page does
WebPageMetadataResult_ReturnsEmpty(w) ==
  IF w = Null THEN MetadataResult(EmptyMetadata)
  ELSE MetadataResult(WebPageMetadata(w))

\* generateMetadata of the content page, lines 44-54: notFound() throws,
\* nothing after it runs
WebPageMetadataResult(w) ==
  IF w = Null THEN NotFound
  ELSE MetadataResult(WebPageMetadata(w))

(* ------------------------------ requests ------------------------------- *)
SampleSlugs == {<<"1">>, <<"1", "2">>, <<"a">>}

SamplePages == {<<"a">>, <<"1">>}

NoParams == <<>>

SampleSearchParams ==
  { NoParams,
    <<"1", "3", "4">> :> StrValue(<<"1", "3", "9">>),
    <<"1", ".", "5">> :> StrValue(<<"2">>),
    (SlugKey :> StrValue(<<"1">>)) @@ (<<"a">> :> ArrValue(<<<<"1">>, <<"2">>>>)) }

InitIdle ==
  /\ pc = "start"
  /\ productId = NaN
  /\ path = <<>>
  /\ optionValueIds = {}
  /\ product = Null
  /\ fetchedImages = <<>>
  /\ images = "none"
  /\ heap = [r \in Refs |-> <<>>]
  /\ webpage = Null
  /\ reCaptcha = ReCaptchaIdle
  /\ result = NoResult

InitPrices ==
  /\ prices = Null
  /\ details = [rendered |-> FALSE, block |-> <<>>]

InitUrl ==
  /\ query = <<>>
  /\ initialQuery = <<>>
  /\ selected = <<>>
  /\ nSelections = 0

Init ==
  /\ route \in {"product", "webpage"}
  /\ handler \in {"generateMetadata", "render"}
  /\ params \in (IF route = "product" THEN SampleSlugs ELSE SamplePages)
  /\ searchParams \in (IF route = "product" THEN SampleSearchParams ELSE {NoParams})
  /\ InitIdle
  /\ InitPrices
  /\ InitUrl

(* ------------------------- product page handlers ----------------------- *)
\* generateMetadata, lines 168-169: up to the await
ProductMetadataCall ==
  /\ route = "product" /\ handler = "generateMetadata" /\ pc = "start"
  /\ productId' = StringToNumber(params)
  /\ pc' = "awaitProduct"
  /\ UNCHANGED <<route, handler, params, searchParams, path, optionValueIds, product,
                 fetchedImages, images, heap, webpage, reCaptcha, result>>
  /\ UNCHANGED <<priceVars, urlVars>>

\* Product, lines 196-208: up to the await
ProductCall ==
  /\ route = "product" /\ handler = "render" /\ pc = "start"
  /\ productId' = StringToNumber(params)
  /\ optionValueIds' = OptionValueIds(searchParams)
  /\ pc' = "awaitProduct"
  /\ UNCHANGED <<route, handler, params, searchParams, path, product,
                 fetchedImages, images, heap, webpage, reCaptcha, result>>
  /\ UNCHANGED <<priceVars, urlVars>>

\* the commerce API answers getProduct: no product, or a product
GetProductReturns ==
  /\ pc = "awaitProduct"
  /\ \/ /\ product' = Null
        /\ UNCHANGED <<heap, fetchedImages>>
     \/ \E p \in (IF handler = "render" THEN ProductsForRender ELSE ProductsForMetadata),
           imgs \in (IF handler = "render" THEN ImageLists ELSE {<<>>}) :
          /\ product' = p
          /\ heap' = [heap EXCEPT ![p.images] = imgs]
          /\ fetchedImages' = imgs
  /\ pc' = "gotProduct"
  /\ UNCHANGED <<route, handler, params, searchParams, path, productId, optionValueIds,
                 images, webpage, reCaptcha, result>>
  /\ UNCHANGED <<priceVars, urlVars>>

\* generateMetadata, lines 171-192
ProductMetadataFinish ==
  /\ route = "product" /\ handler = "generateMetadata" /\ pc = "gotProduct"
  /\ result' = ProductMetadataResult(product)
  /\ pc' = "done"
  /\ UNCHANGED <<route, handler, params, searchParams, path, productId, optionValueIds,
                 product, fetchedImages, images, heap, webpage, reCaptcha>>
  /\ UNCHANGED <<priceVars, urlVars>>

\* Product, lines 210-247
ProductFinish ==
  /\ route = "product" /\ handler = "render" /\ pc = "gotProduct"
  /\ IF product = Null
       THEN /\ result' = NotFound
            /\ UNCHANGED <<images, heap>>
       ELSE LET ref == ImagesBinding(product)
                h == Reconcile(heap, product, ref)
            IN /\ images' = ref
               /\ heap' = h
               /\ result' = Rendered(ProductTree(productId, h[ref], product,
                                                 optionValueIds))
  /\ pc' = "done"
  /\ UNCHANGED <<route, handler, params, searchParams, path, productId, optionValueIds,
                 product, fetchedImages, webpage, reCaptcha>>
  /\ UNCHANGED <<priceVars, urlVars>>

(* ------------------------- content page handlers ----------------------- *)
\* generateMetadata, lines 41-42: up to the await
WebPageMetadataCall ==
  /\ route = "webpage" /\ handler = "generateMetadata" /\ pc = "start"
  /\ path' = <<"/">> \o params
  /\ pc' = "awaitWebPage"
  /\ UNCHANGED <<route, handler, params, searchParams, productId, optionValueIds,
                 product, fetchedImages, images, heap, webpage, reCaptcha, result>>
  /\ UNCHANGED <<priceVars, urlVars>>

\* WebPage, lines 58-59: up to the await
WebPageCall ==
  /\ route = "webpage" /\ handler = "render" /\ pc = "start"
  /\ path' = <<"/">> \o params
  /\ pc' = "awaitWebPage"
  /\ UNCHANGED <<route, handler, params, searchParams, productId, optionValueIds,
                 product, fetchedImages, images, heap, webpage, reCaptcha, result>>
  /\ UNCHANGED <<priceVars, urlVars>>

\* the commerce API answers getWebPage: no page, or a page
GetWebPageReturns ==
  /\ pc = "awaitWebPage"
  /\ webpage' \in {Null} \cup WebPages
  /\ pc' = "gotWebPage"
  /\ UNCHANGED <<route, handler, params, searchParams, path, productId, optionValueIds,
                 product, fetchedImages, images, heap, reCaptcha, result>>
  /\ UNCHANGED <<priceVars, urlVars>>

\* generateMetadata, lines 44-54
WebPageMetadataFinish ==
  /\ route = "webpage" /\ handler = "generateMetadata" /\ pc = "gotWebPage"
  /\ result' = WebPageMetadataResult(webpage)
  /\ pc' = "done"
  /\ UNCHANGED <<route, handler, params, searchParams, path, productId, optionValueIds,
                 product, fetchedImages, images, heap, webpage, reCaptcha>>
  /\ UNCHANGED <<priceVars, urlVars>>

\* WebPage, lines 61-69 and 83-85: the not-found check and the switch
WebPageDispatch ==
  /\ route = "webpage" /\ handler = "render" /\ pc = "gotWebPage"
  /\ IF webpage = Null
       THEN /\ result' = NotFound
            /\ pc' = "done"
            /\ UNCHANGED reCaptcha
       ELSE IF IsContactPage(webpage)
         THEN /\ reCaptcha' = [reCaptcha EXCEPT !.calls = @ + 1, !.status = "pending"]
              /\ pc' = "awaitReCaptcha"
              /\ UNCHANGED result
         ELSE /\ result' = Rendered(NormalPageTree(webpage))
              /\ pc' = "done"
              /\ UNCHANGED reCaptcha
  /\ UNCHANGED <<route, handler, params, searchParams, path, productId, optionValueIds,
                 product, fetchedImages, images, heap, webpage>>
  /\ UNCHANGED <<priceVars, urlVars>>

\* the commerce API answers getReCaptchaSettings: the settings, or a failure
GetReCaptchaReturns ==
  /\ pc = "awaitReCaptcha"
  /\ \/ \E settings \in ReCaptchaSettings :
          reCaptcha' = [reCaptcha EXCEPT !.status = "resolved", !.settings = settings]
     \/ reCaptcha' = [reCaptcha EXCEPT !.status = "rejected"]
  /\ pc' = "gotReCaptcha"
  /\ UNCHANGED <<route, handler, params, searchParams, path, productId, optionValueIds,
                 product, fetchedImages, images, heap, webpage, result>>
  /\ UNCHANGED <<priceVars, urlVars>>

\* WebPage, lines 69-80: the await resumes, or its rejection leaves the function
WebPageContactFinish ==
  /\ route = "webpage" /\ handler = "render" /\ pc = "gotReCaptcha"
  /\ result' = IF reCaptcha.status = "resolved"
                 THEN Rendered(ContactPageTree(webpage, reCaptcha.settings))
                 ELSE Failure("getReCaptchaSettings")
  /\ pc' = "done"
  /\ UNCHANGED <<route, handler, params, searchParams, path, productId, optionValueIds,
                 product, fetchedImages, images, heap, webpage, reCaptcha>>
  /\ UNCHANGED <<priceVars, urlVars>>

(* ---------------------------- specifications --------------------------- *)
Next ==
  \/ ProductMetadataCall
  \/ ProductCall
  \/ GetProductReturns
  \/ ProductMetadataFinish
  \/ ProductFinish
  \/ WebPageMetadataCall
  \/ WebPageCall
  \/ GetWebPageReturns
  \/ WebPageMetadataFinish
  \/ WebPageDispatch
  \/ GetReCaptchaReturns
  \/ WebPageContactFinish

Spec == Init /\ [][Next]_vars

\* the product page render over every bounded query string
InitOptions ==
  /\ route = "product"
  /\ handler = "render"
  /\ params \in SampleSlugs
  /\ searchParams \in SearchParamsUpTo(MaxParams)
  /\ InitIdle
  /\ InitPrices
  /\ InitUrl

NextOptions == ProductCall

SpecOptions == InitOptions /\ [][NextOptions]_vars

(* ------------------------ ProductDetails: prices ----------------------- *)
\* money amounts in cents
PriceValues == {0, 3000, 4000, 5000, 123456}

Money == [value : PriceValues]

Prices ==
  [price : Money, retailPrice : {Null} \cup Money, salePrice : {Null} \cup Money,
   basePrice : {Null} \cup Money, priceRange : [min : Money, max : Money]]

Pad(n, width) ==
  IF width = 2 /\ n < 10 THEN "0" \o ToString(n)
  ELSE IF width = 3 /\ n < 10 THEN "00" \o ToString(n)
  ELSE IF width = 3 /\ n < 100 THEN "0" \o ToString(n)
  ELSE ToString(n)

RECURSIVE Grouped(_)
Grouped(n) ==
  IF n < 1000 THEN ToString(n)
  ELSE Grouped(n \div 1000) \o "," \o Pad(n % 1000, 3)

\* currencyFormatter.format: en-US, USD: "$", thousands separators, two decimals
CurrencyFormat(cents) == "$" \o Grouped(cents \div 100) \o "." \o Pad(cents % 100, 2)

\* product.prices?.priceRange.min.value !== product.prices?.priceRange.max.value
ShowPriceRange(pr) ==
  IF pr = Null THEN FALSE
  ELSE pr.priceRange.min.value # pr.priceRange.max.value

Element(kind, label, text, struck) ==
  [kind |-> kind, label |-> label, text |-> text, struck |-> struck]

\* lines 41-44
RangeBlock(pr) ==
  <<Element("range", "",
            CurrencyFormat(pr.priceRange.min.value) \o " - " \o
              CurrencyFormat(pr.priceRange.max.value), FALSE)>>

\* lines 47-54
MsrpBlock(pr) ==
  IF pr.retailPrice # Null
    THEN <<Element("msrp", "MSRP: ", CurrencyFormat(pr.retailPrice.value), TRUE)>>
    ELSE <<>>

\* a sale block that prefers the plain price whenever there is one
SaleOrPriceBlock_PrefersPrice(pr) ==
  IF pr.price.value # 0
    THEN <<Element("price", "", CurrencyFormat(pr.price.value), FALSE)>>
    ELSE IF pr.salePrice # Null /\ pr.basePrice # Null
      THEN <<Element("was", "Was: ", CurrencyFormat(pr.basePrice.value), TRUE),
             Element("now", "Now: ", CurrencyFormat(pr.salePrice.value), FALSE)>>
      ELSE <<Element("price", "", ToString(pr.price.value), FALSE)>>

\* lines 55-69; `price.value && ...` renders the number itself when it is 0
SaleOrPriceBlock(pr) ==
  IF pr.salePrice # Null /\ pr.basePrice # Null
    THEN <<Element("was", "Was: ", CurrencyFormat(pr.basePrice.value), TRUE),
           Element("now", "Now: ", CurrencyFormat(pr.salePrice.value), FALSE)>>
    ELSE IF pr.price.value # 0
      THEN <<Element("price", "", CurrencyFormat(pr.price.value), FALSE)>>
      ELSE <<Element("price", "", ToString(pr.price.value), FALSE)>>

\* a price block that keeps the MSRP line next to the range
PriceBlock_MsrpWithRange(pr) ==
  IF pr = Null THEN <<>>
  ELSE IF ShowPriceRange(pr) THEN RangeBlock(pr) \o MsrpBlock(pr)
  ELSE MsrpBlock(pr) \o SaleOrPriceBlock(pr)

\* lines 38-73: the price block of ProductDetails
PriceBlock(pr) ==
  IF pr = Null THEN <<>>
  ELSE IF ShowPriceRange(pr) THEN RangeBlock(pr)
  ELSE MsrpBlock(pr) \o SaleOrPriceBlock(pr)

NotRendered == [rendered |-> FALSE, block |-> <<>>]

InitDetails ==
  /\ prices \in {Null} \cup Prices
  /\ details = NotRendered
  /\ route = "product"
  /\ handler = "render"
  /\ params \in {<<"1">>}
  /\ searchParams = NoParams
  /\ InitIdle
  /\ InitUrl

\* React calls ProductDetails with the product
RenderProductDetails ==
  /\ ~details.rendered
  /\ details' = [rendered |-> TRUE, block |-> PriceBlock(prices)]
  /\ UNCHANGED <<prices, reqVars, urlVars>>

NextDetails == RenderProductDetails

SpecDetails == InitDetails /\ [][NextDetails]_vars

(* ---------------------- option selection and the URL ------------------- *)
OptionIds == {134, 135}
ValueIds == {139, 140, 141}

QueryKeys == {ToString(o) : o \in OptionIds} \cup {"sort"}
QueryValues == {ToString(139), "x"}

InitialQueries ==
  UNION {[1..n -> QueryKeys \X QueryValues] : n \in 0..MaxInitialParams}

\* URLSearchParams.append in place of set
SetParam_Append(q, key, value) == Append(q, <<key, value>>)

\* URLSearchParams.set: the first parameter named key takes the value, the
\* others named key are removed; a new parameter is appended when none exists
SetParam(q, key, value) ==
  IF \E i \in 1..Len(q) : q[i][1] = key
    THEN LET first == CHOOSE i \in 1..Len(q) :
                        q[i][1] = key /\ \A j \in 1..(i - 1) : q[j][1] # key
             marked == [i \in 1..Len(q) |->
                          IF i = first THEN <<key, value, TRUE>>
                          ELSE <<q[i][1], q[i][2], q[i][1] # key>>]
             Kept(e) == e[3]
             kept == SelectSeq(marked, Kept)
         IN [i \in 1..Len(kept) |-> <<kept[i][1], kept[i][2]>>]
    ELSE Append(q, <<key, value>>)

InitSelection ==
  /\ initialQuery \in InitialQueries
  /\ query = initialQuery
  /\ selected = <<>>
  /\ nSelections = 0
  /\ route = "product"
  /\ handler = "render"
  /\ params \in {<<"1">>}
  /\ searchParams = NoParams
  /\ InitIdle
  /\ InitPrices

\* the user picks value v of option o: the URL gets ?<o>=<v>
SelectOption ==
  /\ nSelections < MaxSelections
  /\ \E o \in OptionIds, v \in ValueIds :
       /\ query' = SetParam(query, ToString(o), ToString(v))
       /\ selected' = (o :> v) @@ selected
  /\ nSelections' = nSelections + 1
  /\ UNCHANGED <<initialQuery, reqVars, priceVars>>

NextSelection == SelectOption

SpecSelection == InitSelection /\ [][NextSelection]_vars

(* ============================== properties ============================= *)
RenderedProduct ==
  route = "product" /\ handler = "render" /\ pc = "done" /\ result.kind = "rendered"

Gallery == result.value.gallery

Flagged(imgs) == {i \in 1..Len(imgs) : imgs[i].isDefault}

\* the first flagged catalog image has the URL of the product's default image
FirstFlaggedMatches(imgs, defaultImage) ==
  /\ TopLevelDefaultImg(imgs) # 0
  /\ imgs[TopLevelDefaultImg(imgs)].url = defaultImage.url

(* ------------------------------- C1 ------------------------------------ *)
\* a string that is an integer literal: one or more decimal digits
ParsesAsInteger(s) == Len(s) > 0 /\ AllDigits(s)

ValueParsesAsInteger(v) == v.kind = "string" /\ ParsesAsInteger(v.str)

IntegerOf(s) == [nan |-> FALSE, num |-> DigitsValue(s), den |-> 1]

IntegerPairs(sp) ==
  {[optionEntityId |-> IntegerOf(k), valueEntityId |-> IntegerOf(sp[k].str)] :
     k \in {k \in DOMAIN sp \ {SlugKey} :
              ParsesAsInteger(k) /\ ValueParsesAsInteger(sp[k])}}

\* C1: the pairs Product passes to getProduct are exactly the query pairs,
\* other than slug, whose key and value both parse as integers, and filtering
\* the passed set again removes nothing.
C1_OnlyIntegerPairsPassed ==
  (route = "product" /\ handler = "render" /\ pc = "awaitProduct") =>
    /\ optionValueIds = IntegerPairs(searchParams)
    /\ ValidPairs(optionValueIds) = optionValueIds

(* ------------------------------- C2 ------------------------------------ *)
AbsentEntity ==
  /\ pc = "done"
  /\ \/ route = "product" /\ product = Null
     \/ route = "webpage" /\ webpage = Null

\* C2 as stated: for an absent content page and an absent product, both
\* generateMetadata and the page render end in the not-found result.
C2_AbsentEndsNotFound == AbsentEntity => result = NotFound

\* C2 amended: an absent entity ends in the not-found result in WebPage, in
\* the content page's generateMetadata and in Product; the product page's
\* generateMetadata returns the empty metadata object {} instead. No step
\* returns populated metadata or rendered content for an absent entity.
C2_AbsentEndsNotFoundOrEmptyMetadata ==
  AbsentEntity =>
    IF route = "product" /\ handler = "generateMetadata"
      THEN result = MetadataResult(EmptyMetadata)
      ELSE result = NotFound

C2_Witness ==
  /\ AbsentEntity
  /\ route = "product" /\ handler = "generateMetadata"
  /\ result.kind = "metadata" /\ result.value = EmptyMetadata

(* ------------------------------- C4 ------------------------------------ *)
\* C4 as stated: whenever product.defaultImage is not null, the list handed to
\* Gallery has exactly one image with isDefault = true.
C4_ExactlyOneDefault ==
  (RenderedProduct /\ product.defaultImage # Null) =>
    Cardinality(Flagged(Gallery)) = 1

\* C4 amended: whenever product.defaultImage is not null, the list handed to
\* Gallery has exactly one flagged image unless the first flagged catalog image
\* already has the default image's URL; in that case the list keeps the
\* catalog's flags, one or more.
C4_ExactlyOneDefaultUnlessFirstMatches ==
  (RenderedProduct /\ product.defaultImage # Null) =>
    IF FirstFlaggedMatches(fetchedImages, product.defaultImage)
      THEN /\ Flagged(Gallery) = Flagged(fetchedImages)
           /\ Cardinality(Flagged(Gallery)) >= 1
      ELSE /\ Cardinality(Flagged(Gallery)) = 1
           /\ Gallery[Len(Gallery)].isDefault
           /\ Gallery[Len(Gallery)].url = product.defaultImage.url

C4_Witness ==
  /\ RenderedProduct /\ product.defaultImage # Null
  /\ Cardinality(Flagged(fetchedImages)) = 2
  /\ ~FirstFlaggedMatches(fetchedImages, product.defaultImage)
  /\ Cardinality(Flagged(Gallery)) = 1

(* ------------------------------- C5 ------------------------------------ *)
\* C5 as stated: if the default image's URL equals the URL of a catalog image
\* flagged isDefault, the image list is unchanged.
C5_UnchangedWhenAnyFlaggedMatches ==
  (/\ RenderedProduct /\ product.defaultImage # Null
   /\ \E i \in Flagged(fetchedImages) :
        fetchedImages[i].url = product.defaultImage.url) =>
    Gallery = fetchedImages

\* C5 amended: if the default image's URL equals the URL of the first catalog
\* image flagged isDefault, the image list is unchanged: nothing is appended
\* and no flag is changed.
C5_UnchangedWhenFirstFlaggedMatches ==
  (/\ RenderedProduct /\ product.defaultImage # Null
   /\ FirstFlaggedMatches(fetchedImages, product.defaultImage)) =>
    Gallery = fetchedImages

C5_Witness ==
  /\ RenderedProduct /\ product.defaultImage # Null
  /\ FirstFlaggedMatches(fetchedImages, product.defaultImage)
  /\ Len(fetchedImages) = 2
  /\ Gallery = fetchedImages

(* ------------------------------- C6 ------------------------------------ *)
\* C6: reconciling the list Product produced once more, with the same
\* default image, leaves it as it is.
C6_ReconcileIdempotent ==
  RenderedProduct => Reconcile(heap, product, images)[images] = heap[images]

C6_Witness ==
  /\ RenderedProduct
  /\ Gallery # fetchedImages
  /\ Len(Gallery) = Len(fetchedImages) + 1
  /\ Reconcile(heap, product, images)[images] = Gallery

(* ------------------------------- C10 ----------------------------------- *)
\* C10: product.images is, after Product has run, what getProduct returned.
C10_FetchedImagesUntouched ==
  RenderedProduct => heap[product.images] = fetchedImages

(* ------------------------------- C9 ------------------------------------ *)
RenderingWebPage == route = "webpage" /\ handler = "render"

HasContactForm ==
  /\ result.kind = "rendered"
  /\ \E i \in 1..Len(result.value) : result.value[i].component = "ContactUs"

\* C9: WebPage fetches the reCAPTCHA settings if and only if the page exists
\* and is a ContactPage, and the fetch has resolved before the form is
\* rendered; every other page type ends with the page content alone and no
\* fetch; a failed fetch renders nothing and propagates.
C9_ReCaptchaOnlyForContactPage ==
  RenderingWebPage =>
    /\ reCaptcha.calls <= 1
    /\ reCaptcha.calls = 1 => (webpage # Null /\ webpage.typename = "ContactPage")
    /\ pc = "done" =>
         /\ (webpage # Null /\ webpage.typename = "ContactPage") => reCaptcha.calls = 1
         /\ (webpage # Null /\ webpage.typename # "ContactPage") =>
              /\ result.kind = "rendered"
              /\ Len(result.value) = 1
              /\ result.value[1].component = "PageContent"
              /\ reCaptcha = ReCaptchaIdle
         /\ reCaptcha.status = "rejected" =>
              result = Failure("getReCaptchaSettings")
         /\ reCaptcha.status = "resolved" => HasContactForm
    /\ HasContactForm =>
         /\ reCaptcha.status = "resolved"
         /\ result.value[2].reCaptchaSettings = reCaptcha.settings

C9_Witness ==
  /\ RenderingWebPage /\ pc = "done"
  /\ webpage # Null /\ webpage.typename = "ContactPage"
  /\ reCaptcha.calls = 1 /\ reCaptcha.status = "resolved"
  /\ HasContactForm

(* ------------------------------- C7 ------------------------------------ *)
AllSalePricesPresent ==
  /\ details.rendered /\ prices # Null /\ ~ShowPriceRange(prices)
  /\ prices.retailPrice # Null /\ prices.basePrice # Null /\ prices.salePrice # Null

ExamplePrices ==
  /\ prices.retailPrice.value = 5000
  /\ prices.basePrice.value = 4000
  /\ prices.salePrice.value = 3000

\* C7: with no range shown and retailPrice, basePrice and salePrice present,
\* the block is the MSRP struck through, "Was: <basePrice>" struck through and
\* "Now: <salePrice>", and the plain price is not shown; for 50 / 40 / 30 that
\* is Was $40.00 struck, Now $30.00, and $50.00 only struck.
C7_WasNowWhenSalePresent ==
  AllSalePricesPresent =>
    /\ Len(details.block) = 3
    /\ details.block[1] =
         Element("msrp", "MSRP: ", CurrencyFormat(prices.retailPrice.value), TRUE)
    /\ details.block[2] =
         Element("was", "Was: ", CurrencyFormat(prices.basePrice.value), TRUE)
    /\ details.block[3] =
         Element("now", "Now: ", CurrencyFormat(prices.salePrice.value), FALSE)
    /\ ExamplePrices =>
         /\ details.block[2].text = "$40.00"
         /\ details.block[3].text = "$30.00"
         /\ \A i \in 1..Len(details.block) :
              details.block[i].text = "$50.00" => details.block[i].struck

C7_Witness ==
  /\ AllSalePricesPresent /\ ExamplePrices
  /\ prices.price.value = 5000
  /\ details.block[2].text = "$40.00" /\ details.block[2].struck
  /\ details.block[3].text = "$30.00"

(* ------------------------------- C8 ------------------------------------ *)
ShowsRange == \E i \in 1..Len(details.block) : details.block[i].kind = "range"

\* C8: the range is shown if and only if priceRange.min.value differs from
\* priceRange.max.value, and when it is shown nothing else is.
C8_RangeIffMinDiffersFromMax ==
  (details.rendered /\ prices # Null) =>
    /\ ShowsRange <=> prices.priceRange.min.value # prices.priceRange.max.value
    /\ ShowsRange => Len(details.block) = 1

C8_Witness ==
  /\ details.rendered /\ prices # Null
  /\ prices.priceRange.min.value = 3000 /\ prices.priceRange.max.value = 123456
  /\ prices.retailPrice # Null /\ prices.basePrice # Null /\ prices.salePrice # Null
  /\ Len(details.block) = 1
  /\ details.block[1].text = "$30.00 - $1,234.56"

(* ------------------------------- C3 ------------------------------------ *)
WithKey(q, key) == {i \in 1..Len(q) : q[i][1] = key}

SelectedKeys == {ToString(o) : o \in DOMAIN selected}

Unselected(e) == e[1] \notin SelectedKeys

\* C3: after any sequence of selections the query string has, for each
\* selected option, exactly one parameter with that key, holding the value
\* selected last, and the parameters of every other key are as they were.
C3_QueryHoldsLastSelection ==
  /\ \A o \in DOMAIN selected :
       /\ Cardinality(WithKey(query, ToString(o))) = 1
       /\ \A i \in WithKey(query, ToString(o)) : query[i][2] = ToString(selected[o])
  /\ SelectSeq(query, Unselected) = SelectSeq(initialQuery, Unselected)

C3_Witness ==
  /\ nSelections = 3
  /\ DOMAIN selected = {134} /\ selected[134] = 141
  /\ initialQuery = <<<<"sort", "x">>, <<"134", "139">>>>
  /\ query = <<<<"sort", "x">>, <<"134", "141">>>>

====
